---- MODULE Spec2Model ----
(***************************************************************************)
(* Model of the strategy execution engine of cube-DCA: the TradeManager    *)
(* (one pool future per admitted trade), the TWAP strategy loop, the       *)
(* MarketManager rounding and the trade lifecycle helpers of the API.      *)
(*                                                                         *)
(* Quantities, prices and tick sizes are integers counted in one smallest  *)
(* unit; a quotient that the code forms with "/" is kept exact as a pair    *)
(* [num, den] until MarketManager rounds it.  Time is an integer clock.    *)
(* The code that builds a strategy from a stored row is not part of the    *)
(* sources; the status a tick reads is taken to be the stored one, as the  *)
(* specification describes it (tests/test_twap.py flips the status of the  *)
(* object the strategy was built from).                                    *)
(***************************************************************************)
EXTENDS Integers, Sequences, FiniteSets, TLC

VARIABLES
    status,         \* trade id -> UserTrade.status as stored
    trades,         \* trade id -> the immutable columns of the UserTrade row
    futures,        \* the futures the executor was handed, in submission order
    active_trades,  \* TradeManager.active_trades: trade id -> future (0: no entry)
    orders,         \* the order rows, with what the exchange knows of each
    now,            \* datetime.utcnow()
    tick,           \* what the latest loop iteration did (observation only)
    resp,           \* the latest lifecycle command and its response (observation only)
    pass,           \* what the latest pass of main's loop did (observation only)
    call,           \* the latest call of the scheduler that was noted (observation only)
    calc,           \* the latest rounding asked of MarketManager on its own, and its result
    request,        \* the gateway request a caller is making: its HTTP attempts so far
    manager,        \* the MarketManager class attributes, and the threads constructing it
    stats,          \* the latest answer of the statistics endpoint (observation only)
    lock,           \* TradeManager.lock: its holder, and the threads inside a method
    main            \* main's while loop: running, or ended by the exception of a pass

\* the state of the components that are also exercised on their own
Components == <<calc, request, manager, stats, main>>

Beside == <<Components, lock>>

vars ==
    <<status, trades, futures, active_trades, orders, now, tick, resp, pass, call, calc,
      request, manager, stats, lock, main>>

----------------------------------------------------------------------------
(* Bounds of the model *)

MaxFutures == 2
MaxWorkers == 2
MaxTime == 4
MaxOrders == 2
PoolSize == 1                   \* max_workers of a scheduler with a small pool
FloatDigits == 2                \* significant decimal digits a float holds (17 in Python)
MaxInput == 120                 \* largest value handed to a rounding on its own
MaxTickSize == 7                \* largest tick size of a rounding on its own
MaxThreads == 2                 \* threads that construct MarketManager
MaxMarkets == 3                 \* markets in markets.json

Trades == DOMAIN trades         \* the ids that have a row
None == 0 - 1                   \* last_order_time = None

----------------------------------------------------------------------------
(* db/models.py: UserTradeStatus *)

PENDING == "pending"
ACTIVE == "active"
PAUSED == "paused"
STOPPED == "stopped"
COMPLETED == "completed"

(* cube types: Market.price_tick_size, Market.quantity_tick_size, in units *)
price_tick_size == 2
quantity_tick_size == 2
market == [price_tick_size |-> price_tick_size, quantity_tick_size |-> quantity_tick_size]

----------------------------------------------------------------------------
(* Exact quotients.  A float the code computes with "/" is the pair         *)
(* [num, den], den > 0; an integer x is [x, 1].                             *)

Rat(n, d) == [num |-> n, den |-> d]

\* Decimal.quantize(Decimal('1'), rounding=ROUND_DOWN): truncation toward zero
Quantize(x) ==
    IF x.num >= 0 THEN x.num \div x.den ELSE 0 - ((0 - x.num) \div x.den)

RECURSIVE Ulp(_)
\* the weight of the last digit a float keeps of the natural number n
Ulp(n) == IF n < 10 ^ FloatDigits THEN 1 ELSE 10 * Ulp(n \div 10)

\* float(d) for a Decimal d: the nearest number of FloatDigits significant
\* digits, a tie going to the even last digit
Float(d) ==
    LET n == IF d >= 0 THEN d ELSE 0 - d
        u == Ulp(n)
        q == n \div u
        r == n % u
        up == 2 * r > u \/ (2 * r = u /\ q % 2 = 1)
        f == IF up THEN (q + 1) * u ELSE q * u
    IN  IF d >= 0 THEN f ELSE 0 - f

\* the numbers a float can hold
IsFloat(d) == Float(d) = d

(* services/market_manager.py *)

round_price(m, price) ==
    Float(Quantize(Rat(price.num, price.den * m.price_tick_size)) * m.price_tick_size)

\* a rounding that truncates to a whole unit and forgets the tick size
round_quantity_whole_units(m, quantity) == Quantize(quantity)

round_quantity(m, quantity) ==
    Float(Quantize(Rat(quantity.num, quantity.den * m.quantity_tick_size))
              * m.quantity_tick_size)

validate_order(m, price, quantity) ==
    <<round_price(m, price), round_quantity(m, quantity)>>

\* a rounding asked of MarketManager directly: of a float x under tick size
\* tick_size, or (again) of the result of the rounding before
NoCalc == [ op |-> "none", tick_size |-> 0, x |-> 0, result |-> 0, again |-> FALSE ]

Rounded(op, tick_size, x) ==
    LET m == [price_tick_size |-> tick_size, quantity_tick_size |-> tick_size]
    IN  IF op = "round_price" THEN round_price(m, Rat(x, 1))
        ELSE round_quantity(m, Rat(x, 1))

----------------------------------------------------------------------------
(* services/market_manager.py: the singleton and its catalogue.  _instance   *)
(* and _markets are class attributes; __new__ takes no lock.  A thread is at *)
(* "new" (about to test _instance), "create" (found it None), "load" (has    *)
(* assigned _instance and is in _load_markets, `loaded` markets stored so    *)
(* far), "have" (MarketManager() returned) or "looked" (has called            *)
(* get_all_markets and seen `saw`).                                          *)

Threads == 1..MaxThreads
Markets == 1..MaxMarkets

NewThread == [ pc |-> "new", loaded |-> 0, saw |-> {} ]

NoManager ==
    [ instance |-> FALSE, markets |-> {}, loads |-> 0, threads |-> [th \in Threads |-> NewThread] ]

\* __new__: if cls._instance is None
new_test(mm, th) ==
    [mm EXCEPT !.threads[th].pc = IF mm.instance THEN "have" ELSE "create"]

\* __new__: cls._instance = super().__new__(cls), then _load_markets is entered
new_assign(mm, th) ==
    [mm EXCEPT !.instance = TRUE, !.loads = @ + 1, !.threads[th].pc = "load"]

\* _load_markets: self._markets[market.symbol] = market for the next market of
\* the file, and the return to __new__ after the last
load_market(mm, th) ==
    LET k == mm.threads[th].loaded
    IN  IF k < MaxMarkets
        THEN [mm EXCEPT !.markets = @ \cup {k + 1}, !.threads[th].loaded = k + 1]
        ELSE [mm EXCEPT !.threads[th].pc = "have"]

\* get_all_markets: a copy of _markets as it is now
get_all_markets(mm, th) ==
    [mm EXCEPT !.threads[th].pc = "looked", !.threads[th].saw = mm.markets]

----------------------------------------------------------------------------
(* cube/cube_client.py: a request of the gateway and its HTTP attempts *)

\* the methods of CubeClient with the retries each passes to _make_request
\* (1 where it passes none)
Callers ==
    { [name |-> "get_latest_orders", retries |-> 1],
      [name |-> "cancel_market_orders", retries |-> 3],
      [name |-> "cancel_order", retries |-> 1],
      [name |-> "place_order", retries |-> 1],
      [name |-> "get_balances", retries |-> 1],
      [name |-> "get_orderbook", retries |-> 1],
      [name |-> "check_api_key", retries |-> 0] }

NoRequest ==
    [ caller |-> "none", given |-> 0, retries |-> 0, responses |-> <<>>, outcome |-> "none" ]

\* a _make_request that goes on while retries is not negative
make_request_once_more(req, response) ==
    IF response = "200" THEN [req EXCEPT !.responses = Append(@, response),
                                         !.outcome = "returned"]
    ELSE IF response # "transport error" /\ req.retries >= 0
    THEN [req EXCEPT !.responses = Append(@, response), !.retries = @ - 1]
    ELSE [req EXCEPT !.responses = Append(@, response), !.outcome = "raised"]

\* CubeClient._make_request: one httpx.request and what follows it: return
\* on 200, the recursive call with retries - 1, or the exception
make_request(req, response) ==
    IF response = "200" THEN [req EXCEPT !.responses = Append(@, response),
                                         !.outcome = "returned"]
    ELSE IF response # "transport error" /\ req.retries > 0
    THEN [req EXCEPT !.responses = Append(@, response), !.retries = @ - 1]
    ELSE [req EXCEPT !.responses = Append(@, response), !.outcome = "raised"]

----------------------------------------------------------------------------
(* The UserTrade rows.  timestamp is the creation time, total_duration and  *)
(* frequency are strategy_params (both in clock units here).                *)

TradeRows ==
    { [total_quantity |-> 5, limit_price |-> 7, timestamp |-> 0,
       frequency |-> 2, total_duration |-> 3],
      [total_quantity |-> 4, limit_price |-> 6, timestamp |-> 0,
       frequency |-> 1, total_duration |-> 2],
      [total_quantity |-> 3, limit_price |-> 6, timestamp |-> 0,
       frequency |-> 1, total_duration |-> 2] }

\* TwapStrategy.__init__: end_time = start_time + timedelta(hours=total_duration)
end_time(t) == trades[t].timestamp + trades[t].total_duration

\* TwapStrategy.__init__: the strategy object built for trade t
TwapStrategy(t) ==
    [ trade |-> t,
      limit_price |-> validate_order(market, Rat(trades[t].limit_price, 1), Rat(0, 1))[1],
      remaining_quantity |->
          validate_order(market, Rat(0, 1), Rat(trades[t].total_quantity, 1))[2],
      last_order_time |-> None ]

----------------------------------------------------------------------------
(* concurrent.futures: the states of a Future, and the pool *)

FPENDING == "PENDING"
FRUNNING == "RUNNING"
FCANCELLED == "CANCELLED"
FFINISHED == "FINISHED"

\* Future.done()
done(f) == futures[f].state \in {FCANCELLED, FFINISHED}

Running == { f \in DOMAIN futures : futures[f].state = FRUNNING }

\* the future of a run that was submitted and has not started
NewFuture(t) ==
    [ state |-> FPENDING, pc |-> "tick", strategy |-> TwapStrategy(t),
      stop_requested |-> FALSE, ticks_after_stop |-> 0, exception |-> FALSE,
      paused_remaining |-> None ]

\* executor.submit(trade.run): a new pending future running the strategy's loop
Submit(t) == Append(futures, NewFuture(t))

\* a cancel() that leaves a future that has not started in the queue
CancelKeepsQueued(f) ==
    [ futures EXCEPT ![f].stop_requested = (futures[f].state = FRUNNING) ]

\* Future.cancel(): only a future that has not started is cancelled
Cancel(f) ==
    [ futures EXCEPT ![f].state = IF @ = FPENDING THEN FCANCELLED ELSE @,
                     ![f].stop_requested = (futures[f].state = FRUNNING) ]

(* core/trade_manager.py *)

\* tick and resp hold what the step just taken reported, and nothing otherwise
NoTick ==
    [ future |-> 0, trade |-> 0, returned |-> FALSE, due |-> FALSE, quantity |-> 0, zero |-> FALSE,
      cancel_market_orders |-> FALSE, update_user_trade |-> FALSE, add_order |-> FALSE,
      place_order |-> FALSE, accepted |-> FALSE, raised |-> FALSE, calls |-> <<>> ]

NoResp == [ cmd |-> "none", trade_id |-> 0, code |-> 0 ]

NoPass == [ ran |-> FALSE, updated |-> {}, admitted |-> {} ]

\* main before any pass has failed: no exception, no order it stopped at, and
\* the client order ids of the latest response it built its mapping from
NoMain == [ raised |-> FALSE, at |-> 0, keys |-> {} ]

NoCall == [ op |-> "none", trade_id |-> 0, had_entry |-> FALSE ]

NoStats ==
    [ asked |-> FALSE, trade_id |-> 0, status |-> "none", raised |-> FALSE,
      execution_progress |-> Rat(0, 1) ]

Quiet ==
    tick' = NoTick /\ resp' = NoResp /\ pass' = NoPass /\ call' = NoCall /\ UNCHANGED Beside

\* the call op(trade_id) as it is noted: whether the id had an entry
Called(op, trade_id) ==
    [ op |-> op, trade_id |-> trade_id, had_entry |-> active_trades[trade_id] # 0 ]

\* a start_trade without the membership test
StartTradeStepAlways(t, noted) ==
    /\ Len(futures) < MaxFutures
    /\ futures' = Submit(t)
    /\ active_trades' = [active_trades EXCEPT ![t] = Len(futures) + 1]
    /\ UNCHANGED <<status, trades, orders, now>>
    /\ tick' = NoTick /\ resp' = NoResp /\ pass' = NoPass /\ call' = noted
    /\ UNCHANGED Components

\* start_trade, inside `with self.lock`; `noted` is what is kept of the call
\* (observation only)
StartTradeStep(t, noted) ==
    /\ IF active_trades[t] = 0
       THEN /\ Len(futures) < MaxFutures
            /\ futures' = Submit(t)
            /\ active_trades' = [active_trades EXCEPT ![t] = Len(futures) + 1]
       ELSE UNCHANGED <<futures, active_trades>>
    /\ UNCHANGED <<status, trades, orders, now>>
    /\ tick' = NoTick /\ resp' = NoResp /\ pass' = NoPass /\ call' = noted
    /\ UNCHANGED Components

StartTrade(t) == StartTradeStep(t, NoCall) /\ UNCHANGED lock

\* a stop_trade that cancels every loop it finds for the trade
StopTradeStepEveryLoop(t, noted) ==
    /\ futures' = [ f \in DOMAIN futures |->
                      IF futures[f].strategy.trade = t THEN Cancel(f)[f] ELSE futures[f] ]
    /\ active_trades' = [active_trades EXCEPT ![t] = 0]
    /\ UNCHANGED <<status, trades, orders, now>>
    /\ tick' = NoTick /\ resp' = NoResp /\ pass' = NoPass /\ call' = noted
    /\ UNCHANGED Components

\* stop_trade; `noted` as above
StopTradeStep(t, noted) ==
    /\ IF active_trades[t] # 0
       THEN /\ futures' = Cancel(active_trades[t])
            /\ active_trades' = [active_trades EXCEPT ![t] = 0]
       ELSE UNCHANGED <<futures, active_trades>>
    /\ UNCHANGED <<status, trades, orders, now>>
    /\ tick' = NoTick /\ resp' = NoResp /\ pass' = NoPass /\ call' = noted
    /\ UNCHANGED Components

StopTrade(t) == StopTradeStep(t, NoCall) /\ UNCHANGED lock

\* a sweep that drops every entry
CleanupStepEveryEntry(noted) ==
    /\ active_trades' = [ t \in Trades |-> 0 ]
    /\ tick' = NoTick /\ resp' = NoResp /\ pass' = NoPass
    /\ call' = noted
    /\ UNCHANGED <<status, trades, futures, orders, now>>
    /\ UNCHANGED Components

\* cleanup_completed_trades: delete the entries whose future is done().
\* `noted` is what is kept of the call (observation only).
CleanupStep(noted) ==
    /\ active_trades' =
          [ t \in Trades |->
              IF active_trades[t] # 0 /\ done(active_trades[t]) THEN 0
              ELSE active_trades[t] ]
    /\ tick' = NoTick /\ resp' = NoResp /\ pass' = NoPass
    /\ call' = noted
    /\ UNCHANGED <<status, trades, futures, orders, now>>
    /\ UNCHANGED Components

CleanupCompletedTrades == CleanupStep(NoCall) /\ UNCHANGED lock

\* the sweep as it is noted: whether any entry was there
Swept ==
    [ op |-> "cleanup_completed_trades", trade_id |-> 0,
      had_entry |-> \E t \in Trades : active_trades[t] # 0 ]

is_trade_active(t) == active_trades[t] # 0 /\ ~done(active_trades[t])

\* is_trade_active, inside `with self.lock`: the answer is noted in had_entry
IsTradeActiveStep(t) ==
    /\ call' = [ op |-> "is_trade_active", trade_id |-> t, had_entry |-> is_trade_active(t) ]
    /\ tick' = NoTick /\ resp' = NoResp /\ pass' = NoPass
    /\ UNCHANGED <<status, trades, futures, active_trades, orders, now>>
    /\ UNCHANGED Components

\* the threads that call the scheduler
Schedulers == {"main", "api"}

\* threading.Lock(): nobody holds it and no thread is inside a method
NoLock ==
    [ holder |-> "none", pc |-> [c \in Schedulers |-> "idle"],
      op |-> [c \in Schedulers |-> "none"], arg |-> [c \in Schedulers |-> 0] ]

\* a `with` block that does not release on exit
ReleaseKept(lk, c) ==
    [lk EXCEPT !.pc[c] = "idle", !.op[c] = "none", !.arg[c] = 0]

\* the end of `with self.lock`: the lock is released and the method returns
Release(lk, c) ==
    [lk EXCEPT !.holder = "none", !.pc[c] = "idle", !.op[c] = "none", !.arg[c] = 0]

\* thread c calls a method of the scheduler and gets to `with self.lock`
Begin(c, op, t) ==
    /\ lock.pc[c] = "idle"
    /\ op = "start_trade" =>
          Len(futures) + Cardinality({ d \in Schedulers : lock.op[d] = "start_trade" })
              < MaxFutures
    /\ lock' = [lock EXCEPT !.pc[c] = "acquire", !.op[c] = op, !.arg[c] = t]
    /\ tick' = NoTick /\ resp' = NoResp /\ pass' = NoPass /\ call' = NoCall
    /\ UNCHANGED <<status, trades, futures, active_trades, orders, now>>
    /\ UNCHANGED Components

\* Lock.acquire(): only when no thread holds the lock
Acquire(c) ==
    /\ lock.pc[c] = "acquire"
    /\ lock.holder = "none"
    /\ lock' = [lock EXCEPT !.holder = c, !.pc[c] = "critical"]
    /\ tick' = NoTick /\ resp' = NoResp /\ pass' = NoPass /\ call' = NoCall
    /\ UNCHANGED <<status, trades, futures, active_trades, orders, now>>
    /\ UNCHANGED Components

\* the body of the `with` block of the method thread c is in, and the release
Critical(c) ==
    /\ lock.pc[c] = "critical"
    /\ lock.holder = c
    /\ CASE lock.op[c] = "start_trade" ->
               StartTradeStep(lock.arg[c], Called("start_trade", lock.arg[c]))
         [] lock.op[c] = "stop_trade" ->
               StopTradeStep(lock.arg[c], Called("stop_trade", lock.arg[c]))
         [] lock.op[c] = "cleanup_completed_trades" -> CleanupStep(Swept)
         [] lock.op[c] = "is_trade_active" -> IsTradeActiveStep(lock.arg[c])
    /\ lock' = Release(lock, c)

\* a pool that starts a thread for every work item
WorkerStartUnbounded(f, max_workers) ==
    /\ futures[f].state = FPENDING
    /\ futures' = [futures EXCEPT ![f].state = FRUNNING]
    /\ UNCHANGED <<status, trades, active_trades, orders, now>> /\ Quiet

\* ThreadPoolExecutor(max_workers): a free worker takes the oldest queued
\* work item
WorkerStartOf(f, max_workers) ==
    /\ futures[f].state = FPENDING
    /\ \A g \in 1..(f - 1) : futures[g].state # FPENDING
    /\ Cardinality(Running) < max_workers
    /\ futures' = [futures EXCEPT ![f].state = FRUNNING]
    /\ UNCHANGED <<status, trades, active_trades, orders, now>> /\ Quiet

WorkerStart(f) == WorkerStartOf(f, MaxWorkers)

----------------------------------------------------------------------------
(* The gateway, as far as a strategy uses it.  An order row carries the     *)
(* state the exchange holds for it: "none" (never accepted), "open",         *)
(* "cancelled".                                                             *)

is_live(o) == o.exch = "open"

\* cancel_market_orders(market), and the loop over get_latest_orders() that
\* calls cancel_order on each open or partially filled order
CancelLive(os) ==
    [ i \in DOMAIN os |-> IF is_live(os[i]) THEN [os[i] EXCEPT !.exch = "cancelled"] ELSE os[i] ]

\* Order(...): the row a tick builds, and what place_order makes of it
NewOrder(t, price, quantity, accepted) ==
    [ user_trade_id |-> t, price |-> price, quantity |-> quantity, status |-> "pending",
      created_at |-> now, exch |-> IF accepted THEN "open" ELSE "none",
      base_amount |-> None, filled_at |-> None, client_order_id |-> None ]

(* strategies/twap.py *)

\* a stop() that persists the trade before it cancels the market's orders
StopCallsPersistFirst(cancelled_market, persisted) ==
    (IF persisted THEN <<"update_user_trade">> ELSE <<>>)
    \o (IF cancelled_market THEN <<"cancel_market_orders">> ELSE <<>>)

\* pause(): cancel_market_orders; stop(): pause(), then update_user_trade
StopCalls(cancelled_market, persisted) ==
    (IF cancelled_market THEN <<"cancel_market_orders">> ELSE <<>>)
    \o (IF persisted THEN <<"update_user_trade">> ELSE <<>>)

\* a tick that hands the order to the gateway before it stores it
CallsSubmitFirst(due, cancelled_market, persisted, stored, submitted) ==
    (IF due THEN <<"get_balances", "get_latest_orders", "get_orderbook">> ELSE <<>>)
    \o (IF submitted THEN <<"place_order">> ELSE <<>>)
    \o (IF stored THEN <<"add_order">> ELSE <<>>)
    \o StopCalls(cancelled_market, persisted)

\* the calls of one tick on the gateway and on the store, in the order the code
\* makes them (cancel_order, once per live order, is left out): the three reads
\* of a due slice, add_order and then place_order, or pause() and stop()
Calls(due, cancelled_market, persisted, stored, submitted) ==
    (IF due THEN <<"get_balances", "get_latest_orders", "get_orderbook">> ELSE <<>>)
    \o (IF stored THEN <<"add_order">> ELSE <<>>)
    \o (IF submitted THEN <<"place_order">> ELSE <<>>)
    \o StopCalls(cancelled_market, persisted)

\* what one call did: its result, whether a slice was due and its rounded
\* quantity, and the gateway and store calls it made
Obs(f, returned, due, quantity, cancelled_market, persisted, stored, submitted, accepted) ==
    [ future |-> f, trade |-> futures[f].strategy.trade, returned |-> returned, due |-> due,
      quantity |-> quantity, zero |-> due /\ quantity = 0,
      cancel_market_orders |-> cancelled_market, update_user_trade |-> persisted,
      add_order |-> stored, place_order |-> submitted, accepted |-> accepted,
      raised |-> FALSE,
      calls |-> Calls(due, cancelled_market, persisted, stored, submitted) ]

\* the same call left by an exception before it computed a slice: its first
\* call on the gateway raised
Raised(o) == [o EXCEPT !.raised = TRUE, !.zero = FALSE, !.calls = <<Head(@)>>]

\* what the gateway does with the calls of one tick: it serves them all, it
\* refuses place_order, or the first call of the tick raises
GatewayOutcomes == {"ok", "place_order raises", "raises"}

\* the try block around place_order: the strategy's books move only if the
\* call returned
AfterPlaceAlways(s, quantity, ok) ==
    [s EXCEPT !.last_order_time = now, !.remaining_quantity = @ - quantity]

AfterPlace(s, quantity, ok) ==
    IF ok THEN [s EXCEPT !.last_order_time = now, !.remaining_quantity = @ - quantity]
    ELSE s

\* self.user_trade.status as a tick reads it: the strategy reads the store
user_trade_status(s) == status[s.trade]

\* a check that finds every tick due
DueEveryTick(s, t) == TRUE

\* last_order_time is None or (current_time - last_order_time) >= frequency
Due(s, t) ==
    s.last_order_time = None \/ now - s.last_order_time >= trades[t].frequency

\* remaining_quantity / remaining_intervals, with
\* remaining_intervals = (end_time - now) / frequency, replaced by 1 when <= 0
IntervalQuantity(s, t) ==
    IF end_time(t) - now <= 0
    THEN Rat(s.remaining_quantity, 1)
    ELSE Rat(s.remaining_quantity * trades[t].frequency, end_time(t) - now)

\* TwapStrategy.process_interval under gateway outcome gw.  `raised` is TRUE
\* where the call is left by an exception: only place_order is inside a try.
process_interval(f, gw) ==
    LET s == futures[f].strategy
        t == s.trade
        ok == gw = "ok"
        v == validate_order(market, Rat(s.limit_price, 1), IntervalQuantity(s, t))
    IN  IF user_trade_status(s) # ACTIVE
        THEN \* self.pause(); return False
             IF gw = "raises"
             THEN [ returned |-> FALSE, raised |-> TRUE, strategy |-> s, orders |-> orders,
                    status |-> status,
                    obs |-> Raised(Obs(f, FALSE, FALSE, 0, TRUE, FALSE, FALSE, FALSE, FALSE)) ]
             ELSE [ returned |-> FALSE, raised |-> FALSE, strategy |-> s,
                    orders |-> CancelLive(orders), status |-> status,
                    obs |-> Obs(f, FALSE, FALSE, 0, TRUE, FALSE, FALSE, FALSE, FALSE) ]
        ELSE IF ~Due(s, t)
        THEN [ returned |-> TRUE, raised |-> FALSE, strategy |-> s, orders |-> orders,
               status |-> status,
               obs |-> Obs(f, TRUE, FALSE, 0, FALSE, FALSE, FALSE, FALSE, FALSE) ]
        ELSE IF gw = "raises"
        THEN \* get_balances() raises
             [ returned |-> FALSE, raised |-> TRUE, strategy |-> s, orders |-> orders,
               status |-> status,
               obs |-> Raised(Obs(f, FALSE, TRUE, 0, FALSE, FALSE, FALSE, FALSE, FALSE)) ]
        ELSE IF v[2] = 0
        THEN \* self.stop(); return False
             [ returned |-> FALSE, raised |-> FALSE, strategy |-> s,
               orders |-> CancelLive(orders),
               status |-> [status EXCEPT ![t] = COMPLETED],
               obs |-> Obs(f, FALSE, TRUE, 0, TRUE, TRUE, FALSE, FALSE, FALSE) ]
        ELSE [ returned |-> TRUE, raised |-> FALSE,
               strategy |-> AfterPlace(s, v[2], ok),
               orders |-> Append(CancelLive(orders), NewOrder(t, v[1], v[2], ok)),
               status |-> status,
               obs |-> Obs(f, TRUE, TRUE, v[2], FALSE, FALSE, TRUE, TRUE, ok) ]

\* one iteration of the loop of the earlier TwapStrategy.run (src/strategies/twap.py):
\* `returned` is FALSE where run returns
legacy_run_iteration(f, gw) ==
    LET s == futures[f].strategy
        t == s.trade
        ok == gw = "ok"
        v == validate_order(market, Rat(s.limit_price, 1), IntervalQuantity(s, t))
        zero == v[2] = 0
        cancelled == CancelLive(orders)
    IN  IF user_trade_status(s) # ACTIVE
        THEN IF gw = "raises"
             THEN [ returned |-> FALSE, raised |-> TRUE, strategy |-> s, orders |-> orders,
                    status |-> status,
                    obs |-> Raised(Obs(f, FALSE, FALSE, 0, TRUE, FALSE, FALSE, FALSE, FALSE)) ]
             ELSE [ returned |-> FALSE, raised |-> FALSE, strategy |-> s,
                    orders |-> cancelled, status |-> status,
                    obs |-> Obs(f, FALSE, FALSE, 0, TRUE, FALSE, FALSE, FALSE, FALSE) ]
        ELSE IF now >= end_time(t)
        THEN \* self.stop(); return
             IF gw = "raises"
             THEN [ returned |-> FALSE, raised |-> TRUE, strategy |-> s, orders |-> orders,
                    status |-> status,
                    obs |-> Raised(Obs(f, FALSE, FALSE, 0, TRUE, FALSE, FALSE, FALSE, FALSE)) ]
             ELSE [ returned |-> FALSE, raised |-> FALSE, strategy |-> s,
                    orders |-> cancelled,
                    status |-> [status EXCEPT ![t] = COMPLETED],
                    obs |-> Obs(f, FALSE, FALSE, 0, TRUE, TRUE, FALSE, FALSE, FALSE) ]
        ELSE IF ~Due(s, t)
        THEN [ returned |-> TRUE, raised |-> FALSE, strategy |-> s, orders |-> orders,
               status |-> status,
               obs |-> Obs(f, TRUE, FALSE, 0, FALSE, FALSE, FALSE, FALSE, FALSE) ]
        ELSE IF gw = "raises"
        THEN [ returned |-> FALSE, raised |-> TRUE, strategy |-> s, orders |-> orders,
               status |-> status,
               obs |-> Raised(Obs(f, FALSE, TRUE, 0, FALSE, FALSE, FALSE, FALSE, FALSE)) ]
        ELSE \* if interval_quantity == 0: self.stop()  -- and the iteration goes on
             [ returned |-> TRUE, raised |-> FALSE,
               strategy |-> AfterPlace(s, v[2], ok),
               orders |-> Append(cancelled, NewOrder(t, v[1], v[2], ok)),
               status |-> IF zero THEN [status EXCEPT ![t] = COMPLETED] ELSE status,
               obs |-> Obs(f, TRUE, TRUE, v[2], zero, zero, TRUE, TRUE, ok) ]

\* the strategy object of a loop that returned is read by nobody any more
Dropped(s) == [s EXCEPT !.remaining_quantity = 0, !.last_order_time = None, !.limit_price = 0]

\* a loop that calls the next tick at once, without sleeping
RunStepWithoutSleep(f, r, noted) ==
    /\ Len(r.orders) <= MaxOrders
    /\ futures' = [futures EXCEPT
          ![f].strategy = IF r.returned THEN r.strategy ELSE Dropped(r.strategy),
          ![f].state = IF r.returned THEN FRUNNING ELSE FFINISHED,
          ![f].pc = IF r.returned THEN "tick" ELSE "return",
          ![f].exception = r.raised,
          ![f].paused_remaining = noted,
          ![f].ticks_after_stop =
              IF futures[f].stop_requested /\ @ < 2 THEN @ + 1 ELSE @ ]
    /\ orders' = r.orders
    /\ status' = r.status
    /\ tick' = r.obs
    /\ resp' = NoResp
    /\ pass' = NoPass
    /\ call' = NoCall
    /\ UNCHANGED <<trades, active_trades, now>>
    /\ UNCHANGED Beside

\* TwapStrategy.run: call the tick; return on False, end with the exception
\* the tick raised, else go to sleep.  `noted` is what is kept of a
\* strategy whose loop returned (observation only).
RunStep(f, r, noted) ==
    /\ Len(r.orders) <= MaxOrders
    /\ futures' = [futures EXCEPT
          ![f].strategy = IF r.returned THEN r.strategy ELSE Dropped(r.strategy),
          ![f].state = IF r.returned THEN FRUNNING ELSE FFINISHED,
          ![f].pc = IF r.returned THEN "sleep" ELSE "return",
          ![f].exception = r.raised,
          ![f].paused_remaining = noted,
          ![f].ticks_after_stop =
              IF futures[f].stop_requested /\ @ < 2 THEN @ + 1 ELSE @ ]
    /\ orders' = r.orders
    /\ status' = r.status
    /\ tick' = r.obs
    /\ resp' = NoResp
    /\ pass' = NoPass
    /\ call' = NoCall
    /\ UNCHANGED <<trades, active_trades, now>>
    /\ UNCHANGED Beside

Run(f) ==
    /\ futures[f].state = FRUNNING
    /\ futures[f].pc = "tick"
    /\ \E gw \in GatewayOutcomes : RunStep(f, process_interval(f, gw), None)

\* the remaining_quantity of a loop that returns because it read PAUSED
PausedRemaining(f, r) ==
    IF ~r.returned /\ ~r.raised /\ user_trade_status(futures[f].strategy) = PAUSED
    THEN r.strategy.remaining_quantity ELSE None

\* the same iteration, keeping the remaining_quantity a paused loop ended with
RunNoting(f) ==
    /\ futures[f].state = FRUNNING
    /\ futures[f].pc = "tick"
    /\ \E gw \in GatewayOutcomes :
          LET r == process_interval(f, gw) IN RunStep(f, r, PausedRemaining(f, r))

LegacyRun(f) ==
    /\ futures[f].state = FRUNNING
    /\ futures[f].pc = "tick"
    /\ \E gw \in GatewayOutcomes : RunStep(f, legacy_run_iteration(f, gw), None)

\* time.sleep(0.1) returns
Sleep(f) ==
    /\ futures[f].state = FRUNNING
    /\ futures[f].pc = "sleep"
    /\ futures' = [futures EXCEPT ![f].pc = "tick"]
    /\ UNCHANGED <<status, trades, active_trades, orders, now>> /\ Quiet

\* the clock advances
Clock ==
    /\ now < MaxTime
    /\ now' = now + 1
    /\ UNCHANGED <<status, trades, futures, active_trades, orders>> /\ Quiet

----------------------------------------------------------------------------
(* api/trade_api.py: the helpers and the endpoints that call them.  resp    *)
(* records the command, the trade it named and the HTTP code answered.      *)

\* a pause that commits nothing
pause_trade_without_write(trade_id) == status

pause_trade(trade_id) == [status EXCEPT ![trade_id] = PAUSED]

resume_trade(trade_id) == [status EXCEPT ![trade_id] = ACTIVE]

cancel_trade(trade_id) == [status EXCEPT ![trade_id] = STOPPED]

\* an endpoint, called for a trade that has a row (the helper returns it): 400
\* when the row's status after the helper is not the expected one, 200 otherwise
Endpoint(cmd, trade_id, updated, expected) ==
    /\ status' = updated
    /\ resp' = [ cmd |-> cmd, trade_id |-> trade_id,
                 code |-> IF updated[trade_id] # expected THEN 400 ELSE 200 ]
    /\ tick' = NoTick
    /\ pass' = NoPass
    /\ call' = NoCall
    /\ UNCHANGED <<trades, futures, active_trades, orders, now>>
    /\ UNCHANGED Beside

(* utils/trade_info.py *)

RECURSIVE SumBaseAmount(_, _)
\* sum(float(o.base_amount) if o.base_amount else 0 for o in filled_orders)
SumBaseAmount(os, filled_orders) ==
    IF filled_orders = {} THEN 0
    ELSE LET i == CHOOSE i \in filled_orders : TRUE
         IN  (IF os[i].base_amount = None THEN 0 ELSE os[i].base_amount)
             + SumBaseAmount(os, filled_orders \ {i})

\* statistics that take every order of the trade as executed
get_execution_stats_every_order(trade_id) ==
    LET mine == { i \in DOMAIN orders : orders[i].user_trade_id = trade_id }
    IN  [ asked |-> TRUE, trade_id |-> trade_id, status |-> status[trade_id], raised |-> FALSE,
          execution_progress |-> Rat(SumBaseAmount(orders, mine) * 100,
                                     trades[trade_id].total_quantity) ]

\* get_execution_stats for a trade that has a row: the answer, or the
\* ValueError of max() over no fill time when no FILLED order has a filled_at
get_execution_stats(trade_id) ==
    LET filled_orders == { i \in DOMAIN orders : /\ orders[i].user_trade_id = trade_id
                                                 /\ orders[i].status = "filled" }
        total_executed_quantity == SumBaseAmount(orders, filled_orders)
        total_quantity == trades[trade_id].total_quantity
    IN  IF filled_orders # {} /\ \A i \in filled_orders : orders[i].filled_at = None
        THEN [ asked |-> TRUE, trade_id |-> trade_id, status |-> status[trade_id],
               raised |-> TRUE, execution_progress |-> Rat(0, 1) ]
        ELSE [ asked |-> TRUE, trade_id |-> trade_id, status |-> status[trade_id],
               raised |-> FALSE,
               execution_progress |->
                   IF total_quantity > 0 THEN Rat(total_executed_quantity * 100, total_quantity)
                   ELSE Rat(0, 1) ]

(* api/trade_api.py *)

\* GET /{trade_id}/stats for a trade that has a row
get_trade_statistics(trade_id) ==
    /\ stats' = get_execution_stats(trade_id)
    /\ tick' = NoTick
    /\ resp' = NoResp
    /\ pass' = NoPass
    /\ call' = NoCall
    /\ UNCHANGED <<status, trades, futures, active_trades, orders, now, calc, request, manager,
                   lock, main>>

pause_existing_trade(trade_id) ==
    Endpoint("pause", trade_id, pause_trade(trade_id), PAUSED)

resume_existing_trade(trade_id) ==
    Endpoint("resume", trade_id, resume_trade(trade_id), ACTIVE)

cancel_existing_trade(trade_id) ==
    Endpoint("cancel", trade_id, cancel_trade(trade_id), STOPPED)

----------------------------------------------------------------------------
(* db/db.py and main.py: the queries of the store and one pass of main's    *)
(* loop.  Python's `a or b` between two column comparisons is b (the truth  *)
(* value of a comparison of two different expressions is False), so each    *)
(* filter selects on its second comparison only.                            *)

\* Database.get_active_trades: filter(status == ACTIVE or status == PENDING)
get_active_trades == { t \in Trades : status[t] = PENDING }

\* Database.get_live_orders: filter(status == OPEN or status == PARTIALLY_FILLED)
get_live_orders == { i \in DOMAIN orders : orders[i].status = "partially_filled" }

\* the order get_latest_orders builds for row i from what the exchange holds
cube_order(os, i) ==
    [ client_order_id |-> os[i].client_order_id, status |-> os[i].exch,
      base_amount |-> None, filled_at |-> None ]

\* update_data: the attributes of the reported order that are not None
Merged(row, order) ==
    [ row EXCEPT !.status = order.status,
                 !.base_amount = IF order.base_amount # None THEN order.base_amount ELSE @,
                 !.filled_at = IF order.filled_at # None THEN order.filled_at ELSE @ ]

\* an update that writes the reported state to every row
update_order_every_row(os, order) == [ i \in DOMAIN os |-> Merged(os[i], order) ]

\* Database.update_order: filter(client_order_id == order.client_order_id)
\* .update(update_data).  A comparison with None selects the rows that have
\* no client_order_id.
update_order(os, order) ==
    [ i \in DOMAIN os |->
        IF os[i].client_order_id = order.client_order_id THEN Merged(os[i], order)
        ELSE os[i] ]

RECURSIVE UpdateOrders(_, _)
\* for db_order in db_orders: db.update_order(cube_orders[...])
UpdateOrders(os, rows) ==
    IF rows = {} THEN os
    ELSE LET i == CHOOSE x \in rows : \A y \in rows : x <= y
         IN  UpdateOrders(update_order(os, cube_order(os, i)), rows \ {i})

\* active_trades after cleanup_completed_trades
Cleaned ==
    [ t \in Trades |->
        IF active_trades[t] # 0 /\ done(active_trades[t]) THEN 0 ELSE active_trades[t] ]

RECURSIVE StartAll(_, _, _)
\* start_trade for each trade of ts in turn: <<futures, active_trades>> afterwards
StartAll(fs, at, ts) ==
    IF ts = {} THEN <<fs, at>>
    ELSE LET t == CHOOSE x \in ts : \A y \in ts : x <= y
         IN  StartAll(Append(fs, NewFuture(t)), [at EXCEPT ![t] = Len(fs) + 1], ts \ {t})

\* a pass that would also close the trades whose orders it looked at
MainStepClosing(st) ==
    [ t \in Trades |->
        IF \E i \in DOMAIN orders : orders[i].user_trade_id = t /\ orders[i].exch # "none"
        THEN COMPLETED ELSE st[t] ]

\* the trade statuses after a pass: main writes none
MainStep(st) == st

\* one pass of the while loop of main: update the live order rows, clean up,
\* start every selected trade that has no running loop
MainPass ==
    LET rows == get_live_orders
        toStart == { t \in get_active_trades : Cleaned[t] = 0 }
        started == StartAll(futures, Cleaned, toStart)
    IN  /\ Len(futures) + Cardinality(toStart) <= MaxFutures
        /\ orders' = UpdateOrders(orders, rows)
        /\ futures' = started[1]
        /\ active_trades' = started[2]
        /\ status' = MainStep(status)
        /\ pass' = [ ran |-> TRUE, updated |-> rows, admitted |-> toStart ]
        /\ tick' = NoTick
        /\ resp' = NoResp
        /\ call' = NoCall
        /\ UNCHANGED <<trades, now>>
        /\ UNCHANGED Beside

----------------------------------------------------------------------------
(* The specifications *)

Init ==
    /\ trades \in [{1} -> TradeRows]
    /\ status \in [Trades -> {PENDING, ACTIVE}]
    /\ futures = <<>>
    /\ active_trades = [t \in Trades |-> 0]
    /\ orders = <<>>
    /\ now = 0
    /\ tick = NoTick
    /\ resp = NoResp
    /\ pass = NoPass
    /\ call = NoCall
    /\ calc = NoCalc
    /\ request = NoRequest
    /\ manager = NoManager
    /\ stats = NoStats
    /\ lock = NoLock
    /\ main = NoMain

\* two trades of one market on the same subaccount, both running
InitTwo ==
    /\ trades \in [{1, 2} -> { r \in TradeRows : r.frequency = 1 }]
    /\ status = [t \in Trades |-> ACTIVE]
    /\ futures = <<>>
    /\ active_trades = [t \in Trades |-> 0]
    /\ orders = <<>>
    /\ now = 0
    /\ tick = NoTick
    /\ resp = NoResp
    /\ pass = NoPass
    /\ call = NoCall
    /\ calc = NoCalc
    /\ request = NoRequest
    /\ manager = NoManager
    /\ stats = NoStats
    /\ lock = NoLock
    /\ main = NoMain

\* the calls main.py makes on the scheduler, and the executor's workers
Pool ==
    \/ \E t \in Trades : StartTrade(t)
    \/ CleanupCompletedTrades
    \/ \E f \in DOMAIN futures : WorkerStart(f)

\* stop_trade, which no module of the program calls
Retire == \E t \in Trades : StopTrade(t)

Loop ==
    \/ \E f \in DOMAIN futures : Run(f)
    \/ \E f \in DOMAIN futures : Sleep(f)

LegacyLoop ==
    \/ \E f \in DOMAIN futures : LegacyRun(f)
    \/ \E f \in DOMAIN futures : Sleep(f)

Api ==
    \/ \E id \in Trades : pause_existing_trade(id)
    \/ \E id \in Trades : resume_existing_trade(id)
    \/ \E id \in Trades : cancel_existing_trade(id)

\* the program as it runs: main.py's scheduler calls, the strategy loops, the
\* lifecycle commands of the API, and time
Next == Pool \/ Loop \/ Api \/ Clock

Spec == Init /\ [][Next]_vars

\* the same with a caller of the scheduler that also uses stop_trade
ManagerNext == Pool \/ Retire \/ Loop \/ Api \/ Clock

SpecManager == Init /\ [][ManagerNext]_vars

\* the program with main's own loop doing the scheduling
MainNext ==
    \/ MainPass
    \/ \E f \in DOMAIN futures : WorkerStart(f)
    \/ Loop
    \/ Api
    \/ Clock

SpecMain == Init /\ [][MainNext]_vars

\* main's loop, the workers and the clock never stop
SpecMainFair ==
    /\ Init /\ [][MainNext]_vars
    /\ WF_vars(MainPass)
    /\ WF_vars(\E f \in DOMAIN futures : WorkerStart(f))
    /\ WF_vars(Loop)
    /\ WF_vars(Clock)

\* two trades side by side, no lifecycle command arriving
TwoNext == Pool \/ Loop \/ Clock

SpecTwo == InitTwo /\ [][TwoNext]_vars

\* the scheduler running the earlier strategy loop of src/strategies/twap.py
\* the program with what paused loops ended with kept for comparison
NotingLoop ==
    \/ \E f \in DOMAIN futures : RunNoting(f)
    \/ \E f \in DOMAIN futures : Sleep(f)

ResumeNext == Pool \/ NotingLoop \/ Api \/ Clock

SpecResume == Init /\ [][ResumeNext]_vars

\* a scheduler with a small pool, whose calls are noted, and the loops it
\* runs, at one reading of the clock
SchedulerCalls ==
    \/ \E t \in Trades : StartTradeStep(t, Called("start_trade", t)) /\ UNCHANGED lock
    \/ \E t \in Trades : StopTradeStep(t, Called("stop_trade", t)) /\ UNCHANGED lock
    \/ CleanupStep(Swept) /\ UNCHANGED lock
    \/ \E f \in DOMAIN futures : WorkerStartOf(f, PoolSize)

SchedulerNext == SchedulerCalls \/ Loop

SpecScheduler == Init /\ [][SchedulerNext]_vars

\* MarketManager's roundings called on their own, on any float and tick size
Engine ==
    <<status, trades, futures, active_trades, orders, now, tick, resp, pass, call, lock>>

Round ==
    \E op \in {"round_price", "round_quantity"}, tick_size \in 1..MaxTickSize, x \in 1..MaxInput :
        /\ IsFloat(x)
        /\ calc' = [ op |-> op, tick_size |-> tick_size, x |-> x,
                     result |-> Rounded(op, tick_size, x), again |-> FALSE ]
        /\ UNCHANGED <<Engine, request, manager, stats, main>>

RoundAgain ==
    /\ calc.op # "none"
    /\ calc' = [ op |-> calc.op, tick_size |-> calc.tick_size, x |-> calc.result,
                 result |-> Rounded(calc.op, calc.tick_size, calc.result), again |-> TRUE ]
    /\ UNCHANGED <<Engine, request, manager, stats, main>>

RoundingNext == Round \/ RoundAgain

\* no trade is stored and nothing runs
InitIdle ==
    /\ trades = <<>>
    /\ status = <<>>
    /\ futures = <<>>
    /\ active_trades = <<>>
    /\ orders = <<>>
    /\ now = 0
    /\ tick = NoTick
    /\ resp = NoResp
    /\ pass = NoPass
    /\ call = NoCall
    /\ calc = NoCalc
    /\ request = NoRequest
    /\ manager = NoManager
    /\ stats = NoStats
    /\ lock = NoLock
    /\ main = NoMain

SpecRounding == InitIdle /\ [][RoundingNext]_vars

\* the gateway on its own: a caller makes a request (the calls are
\* synchronous: one at a time per caller thread), and HTTP attempts are answered
Request ==
    \E c \in Callers :
        /\ request.outcome # "pending"
        /\ request' = [ caller |-> c.name, given |-> c.retries, retries |-> c.retries,
                        responses |-> <<>>, outcome |-> "pending" ]
        /\ UNCHANGED <<Engine, calc, manager, stats, main>>

\* what httpx.request does: a response with a status code, or an exception
Attempt ==
    \E response \in {"200", "400", "500", "transport error"} :
        /\ request.outcome = "pending"
        /\ request' = make_request(request, response)
        /\ UNCHANGED <<Engine, calc, manager, stats, main>>

GatewayNext == Request \/ Attempt

SpecGateway == InitIdle /\ [][GatewayNext]_vars

\* threads that each construct MarketManager and look markets up
Construct(th) ==
    /\ manager.threads[th].pc \in {"new", "create", "load"}
    /\ manager' = IF manager.threads[th].pc = "new" THEN new_test(manager, th)
                  ELSE IF manager.threads[th].pc = "create" THEN new_assign(manager, th)
                  ELSE load_market(manager, th)
    /\ UNCHANGED <<Engine, calc, request, stats, main>>

Lookup(th) ==
    /\ manager.threads[th].pc = "have"
    /\ manager' = get_all_markets(manager, th)
    /\ UNCHANGED <<Engine, calc, request, stats, main>>

CatalogueNext ==
    \/ \E th \in Threads : Construct(th)
    \/ \E th \in Threads : Lookup(th)

SpecCatalogue == InitIdle /\ [][CatalogueNext]_vars

\* the order rows as the exchange reported them: base_amount is the filled
\* total (None when there is none); only a filled order has a fill time, and
\* the exchange may leave it out
StoredRows ==
    { [ user_trade_id |-> 1, price |-> 6, quantity |-> 2, status |-> r.status,
        created_at |-> 0, exch |-> r.status, base_amount |-> r.base_amount,
        filled_at |-> r.filled_at, client_order_id |-> 1 ] :
      r \in    [ status : {"filled"}, base_amount : {None, 1, 2}, filled_at : {None, 1} ]
           \cup [ status : {"partially_filled", "cancelled"}, base_amount : {None, 1},
                  filled_at : {None} ]
           \cup [ status : {"open"}, base_amount : {None}, filled_at : {None} ] }

StoredOrders == UNION { [1..n -> StoredRows] : n \in 0..MaxOrders }

\* a trade with the orders of its earlier execution in the store
InitStats ==
    /\ trades \in [{1} -> TradeRows]
    /\ status \in [Trades -> {PENDING, ACTIVE}]
    /\ futures = <<>>
    /\ active_trades = [t \in Trades |-> 0]
    /\ orders \in StoredOrders
    /\ now = 0
    /\ tick = NoTick
    /\ resp = NoResp
    /\ pass = NoPass
    /\ call = NoCall
    /\ calc = NoCalc
    /\ request = NoRequest
    /\ manager = NoManager
    /\ stats = NoStats
    /\ lock = NoLock
    /\ main = NoMain

Query == \E id \in Trades : get_trade_statistics(id)

\* the API on its own: lifecycle commands and statistics queries
StatsNext == Api \/ Query

SpecStats == InitStats /\ [][StatsNext]_vars

\* a trade that is ACTIVE when it is admitted
InitActive ==
    /\ Init
    /\ trades[1].frequency = 1
    /\ status = [t \in Trades |-> ACTIVE]

\* a tick all of whose gateway calls succeed
RunServed(f) ==
    /\ futures[f].state = FRUNNING
    /\ futures[f].pc = "tick"
    /\ RunStep(f, process_interval(f, "ok"), None)

\* time.sleep(0.1) returns: less than one unit of the clock has gone by, or
\* the rest of one, or more when the thread was kept waiting
SleepElapsed(f, elapsed) ==
    /\ futures[f].state = FRUNNING
    /\ futures[f].pc = "sleep"
    /\ now + elapsed <= MaxTime
    /\ futures' = [futures EXCEPT ![f].pc = "tick"]
    /\ now' = now + elapsed
    /\ UNCHANGED <<status, trades, active_trades, orders>> /\ Quiet

\* time goes by while the trade waits for main or for a worker of the pool,
\* within its duration
Wait ==
    /\ \A f \in DOMAIN futures : futures[f].state = FPENDING
    /\ \A t \in Trades : now < end_time(t)
    /\ Clock

Admit == \E t \in Trades : StartTrade(t)

Start == \E f \in DOMAIN futures : WorkerStart(f)

Serve == \E f \in DOMAIN futures : RunServed(f)

Nap == \E f \in DOMAIN futures : SleepElapsed(f, 0)

Elapse == \E f \in DOMAIN futures : SleepElapsed(f, 1)

Overrun == \E f \in DOMAIN futures : SleepElapsed(f, 2)

\* a trade nobody pauses or cancels, on a gateway that serves every call
CompletionNext ==
    Wait \/ Admit \/ CleanupCompletedTrades \/ Start \/ Serve \/ Nap \/ Elapse \/ Overrun

\* main admits the trade, the pool starts it, the loop goes on and time passes
SpecCompletion ==
    /\ InitActive /\ [][CompletionNext]_vars
    /\ WF_vars(Admit)
    /\ WF_vars(Start)
    /\ WF_vars(Serve)
    /\ SF_vars(Elapse)

\* the orders the exchange may report: a client order id, the state, and the
\* filled total and fill time when it gives them
CubeOrders ==
    [ client_order_id : {1, 2}, status : {"partially_filled", "filled"},
      base_amount : {None, 1}, filled_at : {None, 1} ]

\* the rows of the store: with or without a client order id, as a tick stored
\* them or as an earlier update left them
MergeRows ==
    { [ user_trade_id |-> 1, price |-> 6, quantity |-> 2, status |-> r.status,
        created_at |-> 0, exch |-> "open", base_amount |-> None, filled_at |-> None,
        client_order_id |-> r.client_order_id ] :
      r \in [ status : {"pending", "partially_filled"}, client_order_id : {None, 1, 2} ] }

InitMerge ==
    /\ trades = <<>>
    /\ status = <<>>
    /\ futures = <<>>
    /\ active_trades = <<>>
    /\ orders \in UNION { [1..n -> MergeRows] : n \in 0..MaxOrders }
    /\ now = 0
    /\ tick = NoTick
    /\ resp = NoResp
    /\ pass = NoPass
    /\ call = NoCall
    /\ calc = NoCalc
    /\ request = NoRequest
    /\ manager = NoManager
    /\ stats = NoStats
    /\ lock = NoLock
    /\ main = NoMain

\* db.update_order(cube_order), for any reported order
Merge ==
    \E order \in CubeOrders :
        /\ orders' = update_order(orders, order)
        /\ UNCHANGED <<status, trades, futures, active_trades, now>>
        /\ Quiet

SpecMerge == InitMerge /\ [][Merge]_vars

\* what get_latest_orders may answer, as main maps it: client order id ->
\* order, each order with its state only (as cube_order builds them)
LatestOrders ==
    LET reported == { o \in CubeOrders : o.base_amount = None /\ o.filled_at = None }
    IN  UNION { { m \in [K -> reported] : \A k \in K : m[k].client_order_id = k } :
                K \in SUBSET {1, 2} }

RECURSIVE Reconciled(_, _, _)
\* for db_order in db_orders: cube_orders[db_order.client_order_id] raises
\* KeyError for an id that is no key of the mapping, and nothing catches it;
\* the updates made before it are committed
Reconciled(os, rows, cube_orders) ==
    IF rows = {} THEN [ orders |-> os, raised |-> FALSE, at |-> 0 ]
    ELSE LET i == CHOOSE x \in rows : \A y \in rows : x <= y
         IN  IF os[i].client_order_id \notin DOMAIN cube_orders
             THEN [ orders |-> os, raised |-> TRUE, at |-> i ]
             ELSE Reconciled(update_order(os, cube_orders[os[i].client_order_id]),
                             rows \ {i}, cube_orders)

\* a pass that goes on to the cleanup and the admission after a lookup failed
MainPassCarryingOn(cube_orders) ==
    LET rows == get_live_orders
        r == Reconciled(orders, rows, cube_orders)
        toStart == { t \in get_active_trades : Cleaned[t] = 0 }
        started == StartAll(futures, Cleaned, toStart)
    IN  /\ ~main.raised
        /\ Len(futures) + Cardinality(toStart) <= MaxFutures
        /\ orders' = r.orders
        /\ futures' = started[1]
        /\ active_trades' = started[2]
        /\ status' = MainStep(status)
        /\ pass' = [ ran |-> TRUE,
                     updated |-> IF r.raised THEN { j \in rows : j < r.at } ELSE rows,
                     admitted |-> toStart ]
        /\ main' = [ raised |-> r.raised, at |-> r.at, keys |-> DOMAIN cube_orders ]
        /\ tick' = NoTick
        /\ resp' = NoResp
        /\ call' = NoCall
        /\ UNCHANGED <<trades, now, calc, request, manager, stats, lock>>

\* one pass of the while loop of main on the response cube_orders: the
\* exception of a lookup leaves the loop, and main with it, before the cleanup
\* and the admission
MainPassGiven(cube_orders) ==
    LET rows == get_live_orders
        r == Reconciled(orders, rows, cube_orders)
        toStart == IF r.raised THEN {} ELSE { t \in get_active_trades : Cleaned[t] = 0 }
        started == IF r.raised THEN <<futures, active_trades>>
                   ELSE StartAll(futures, Cleaned, toStart)
    IN  /\ ~main.raised
        /\ Len(futures) + Cardinality(toStart) <= MaxFutures
        /\ orders' = r.orders
        /\ futures' = started[1]
        /\ active_trades' = started[2]
        /\ status' = MainStep(status)
        /\ pass' = [ ran |-> TRUE,
                     updated |-> IF r.raised THEN { j \in rows : j < r.at } ELSE rows,
                     admitted |-> toStart ]
        /\ main' = [ raised |-> r.raised, at |-> r.at, keys |-> DOMAIN cube_orders ]
        /\ tick' = NoTick
        /\ resp' = NoResp
        /\ call' = NoCall
        /\ UNCHANGED <<trades, now, calc, request, manager, stats, lock>>

\* a store that holds rows of earlier runs, and a trade to admit
InitReconcile ==
    /\ trades \in [{1} -> { r \in TradeRows : r.frequency = 1 }]
    /\ status \in [Trades -> {PENDING, ACTIVE}]
    /\ futures = <<>>
    /\ active_trades = [t \in Trades |-> 0]
    /\ orders \in UNION { [1..n -> MergeRows] : n \in 0..MaxOrders }
    /\ now = 0
    /\ tick = NoTick
    /\ resp = NoResp
    /\ pass = NoPass
    /\ call = NoCall
    /\ calc = NoCalc
    /\ request = NoRequest
    /\ manager = NoManager
    /\ stats = NoStats
    /\ lock = NoLock
    /\ main = NoMain

Reconcile == \E cube_orders \in LatestOrders : MainPassGiven(cube_orders)

\* main's passes on any response, while the pool runs the loops it admitted
\* (the loop of a PENDING trade, the only kind main admits, returns at its
\* first tick)
ReconcileNext == Reconcile \/ Start \/ Serve

SpecReconcile == InitReconcile /\ [][ReconcileNext]_vars

\* threads calling the scheduler's methods while the pool runs the loops
Enter ==
    \E c \in Schedulers, t \in Trades,
       op \in {"start_trade", "stop_trade", "cleanup_completed_trades", "is_trade_active"} :
        Begin(c, op, t)

Lock == \E c \in Schedulers : Acquire(c)

Leave == \E c \in Schedulers : Critical(c)

LockNext == Enter \/ Lock \/ Leave \/ Start \/ Serve \/ Nap

SpecLock == InitActive /\ [][LockNext]_vars

LegacyNext == Pool \/ LegacyLoop \/ Clock

SpecLegacy == Init /\ [][LegacyNext]_vars

----------------------------------------------------------------------------
(* Properties *)

LoopsOf(t) == { f \in Running : futures[f].strategy.trade = t }

\* C1: at every instant at most one control loop is executing for each trade
\* identifier, whatever calls of start_trade, stop_trade and
\* cleanup_completed_trades were made.
C1_AtMostOneLoopPerTrade ==
    \A t \in Trades : Cardinality(LoopsOf(t)) <= 1

\* C2: a loop on which stop_trade was called while it was executing stops at its
\* next sleep: it performs at most the tick it was about to start, and no tick
\* after that.
C2_StoppedLoopTicksNoMore ==
    \A f \in DOMAIN futures : futures[f].ticks_after_stop <= 1

Edges ==
    { <<PENDING, ACTIVE>>, <<ACTIVE, PAUSED>>, <<PAUSED, ACTIVE>>,
      <<ACTIVE, STOPPED>>, <<ACTIVE, COMPLETED>> }

\* C3: every change of a trade's stored status, by a lifecycle command or by a
\* strategy tick, follows one of the edges of the lifecycle state machine.
C3_StatusFollowsEdges ==
    [][\A t \in Trades : status'[t] # status[t] => <<status[t], status'[t]>> \in Edges]_vars

\* C4: a STOPPED or COMPLETED trade never becomes ACTIVE again, and a PAUSED
\* trade becomes ACTIVE only by a resume command for it.
C4_NoReactivation ==
    [][\A t \in Trades :
         /\ status[t] \in {STOPPED, COMPLETED} => status'[t] # ACTIVE
         /\ (status[t] = PAUSED /\ status'[t] = ACTIVE)
                => (resp'.cmd = "resume" /\ resp'.trade_id = t)]_vars

\* the status a command may be issued in
HasEdge(cmd, st) ==
    \/ cmd = "pause" /\ st = ACTIVE
    \/ cmd = "resume" /\ st = PAUSED
    \/ cmd = "cancel" /\ st = ACTIVE

\* C5: a pause, resume or cancel command issued on a trade whose status has no
\* edge for it answers with a client error (400) and leaves the stored status as
\* it was.
C5_InvalidCommandRejected ==
    [][\A t \in Trades :
         (resp'.cmd # "none" /\ resp'.trade_id = t /\ ~HasEdge(resp'.cmd, status[t]))
             => (resp'.code = 400 /\ status'[t] = status[t])]_vars

\* C6: across every tick of a loop, remaining_quantity does not increase and is
\* not negative afterwards.
C6_RemainingMonotoneNonNegative ==
    [][\A f \in DOMAIN futures :
         (futures[f].state = FRUNNING /\ futures'[f].state = FRUNNING)
             => /\ futures'[f].strategy.remaining_quantity
                      <= futures[f].strategy.remaining_quantity
                /\ futures'[f].strategy.remaining_quantity >= 0]_vars

RECURSIVE SumQuantity(_, _, _)
\* the sum of the quantities of the first n order rows of trade t that the
\* gateway accepted
SumQuantity(os, t, n) ==
    IF n = 0 THEN 0
    ELSE SumQuantity(os, t, n - 1)
         + (IF os[n].user_trade_id = t /\ os[n].exch # "none" THEN os[n].quantity ELSE 0)

Submitted(t) == SumQuantity(orders, t, Len(orders))

\* C7: the quantities of all orders submitted for a trade, over all the loops
\* that ever ran for it, sum to at most the trade's total_quantity.
C7_SubmittedWithinTotal ==
    \A t \in Trades : Submitted(t) <= trades[t].total_quantity

\* C8: a tick whose interval quantity rounds to zero cancels the live orders,
\* sets the status to COMPLETED, persists the trade, reports stop, and neither
\* stores nor submits an order.
C8_ZeroSliceCompletes ==
    (tick.future # 0 /\ tick.zero)
        => /\ tick.cancel_market_orders
           /\ status[tick.trade] = COMPLETED
           /\ tick.update_user_trade
           /\ ~tick.returned
           /\ ~tick.add_order
           /\ ~tick.place_order

\* C9: no order row has a zero or negative quantity, and a tick whose rounded
\* quantity is zero or negative completes the trade instead of creating one.
C9_NoNonPositiveOrder ==
    /\ \A i \in DOMAIN orders : orders[i].quantity > 0
    /\ (tick.future # 0 /\ tick.due /\ ~tick.raised /\ tick.quantity <= 0)
           => (status[tick.trade] = COMPLETED /\ ~tick.returned /\ ~tick.add_order)

IsMultiple(x, tick_size) == x % tick_size = 0

SubmittingLoops(t) == { f \in LoopsOf(t) : futures[f].strategy.last_order_time # None }

\* C11: when a tick submits a new order, no earlier order of the same trade is
\* still live at the exchange, and no two running loops of one trade have both
\* submitted slices for it.
C11_OneOutstandingSlice ==
    /\ (tick.future # 0 /\ tick.place_order)
           => \A i \in 1..(Len(orders) - 1) :
                  orders[i].user_trade_id = tick.trade => ~is_live(orders[i])
    /\ \A t \in Trades : Cardinality(SubmittingLoops(t)) <= 1

\* C12: the per-order cancellation of a tick (a due tick, which does not call
\* cancel_market_orders) leaves every order row of another trade as it was.
C12_CancelsOnlyOwnOrders ==
    [][(tick'.future # 0 /\ tick'.due /\ ~tick'.cancel_market_orders)
          => \A i \in DOMAIN orders :
                 orders[i].user_trade_id # tick'.trade => orders'[i] = orders[i]]_vars

\* C13: a tick in which place_order fails leaves remaining_quantity and
\* last_order_time as they were, leaves the new row stored as pending and never
\* accepted, and reports continue; every tick that calls place_order does so on
\* a row it has just created, and a row the exchange did not accept is never
\* handed to it again.
C13_FailedPlaceOrderRetriesAfresh ==
    [][/\ (tick'.future # 0 /\ tick'.place_order)
            => /\ Len(orders') = Len(orders) + 1
               /\ orders'[Len(orders')].status = "pending"
       /\ (tick'.future # 0 /\ tick'.place_order /\ ~tick'.accepted)
            => /\ futures'[tick'.future].strategy = futures[tick'.future].strategy
               /\ futures'[tick'.future].state = FRUNNING
               /\ tick'.returned
               /\ orders'[Len(orders')].exch = "none"
       /\ \A i \in DOMAIN orders :
              orders[i].exch = "none" => orders'[i] = orders[i]]_vars

\* a failed submission was followed by a tick that placed a new row
C13_Witness ==
    /\ tick.future # 0 /\ tick.place_order /\ tick.accepted
    /\ Len(orders) >= 2
    /\ orders[Len(orders) - 1].exch = "none"
    /\ orders[Len(orders) - 1].user_trade_id = tick.trade
    /\ orders[Len(orders)].exch = "open"

\* C14: a tick of an ACTIVE trade in which a gateway call fails does not end
\* the loop: the loop is still running afterwards.
C14_GatewayFailureKeepsLoop ==
    (tick.future # 0 /\ tick.raised /\ status[tick.trade] = ACTIVE)
        => futures[tick.future].state = FRUNNING

\* C15: once a loop of a trade has ended with an error, no further loop is
\* submitted for that trade.
C15_FailedTradeNotReadmitted ==
    \A f, g \in DOMAIN futures :
        (f < g /\ futures[f].strategy.trade = futures[g].strategy.trade)
            => ~futures[f].exception

\* C16: if main's loop keeps making passes, every order row that was stored and
\* accepted by the exchange eventually carries, in the store, the state the
\* exchange reports for it.
C16_SubmittedOrderReconciled ==
    ([]<>pass.ran) =>
        \A i \in 1..MaxOrders :
            (i \in DOMAIN orders /\ orders[i].exch # "none")
                ~> (i \in DOMAIN orders /\ orders[i].status = orders[i].exch)

\* C17: a pass of main's loop changes no trade's status and no other column of
\* a trade row.
C17_PassKeepsStatus ==
    [][pass'.ran => (status' = status /\ trades' = trades)]_vars

\* a pass ran while a trade was ACTIVE with an order open at the exchange
C17_Witness ==
    /\ pass.ran
    /\ \E i \in DOMAIN orders :
          is_live(orders[i]) /\ status[orders[i].user_trade_id] = ACTIVE

\* C18: after a pass of main's loop every trade whose status is ACTIVE or
\* PENDING has a loop submitted and not finished.
C18_ActiveTradesAdmitted ==
    pass.ran => \A t \in Trades :
                    status[t] \in {ACTIVE, PENDING} => is_trade_active(t)

\* C19: a trade that was admitted is no longer PENDING, and no loop ends for
\* finding its trade PENDING.
C19_AdmissionActivates ==
    /\ \A t \in Trades : active_trades[t] # 0 => status[t] # PENDING
    /\ (tick.future # 0 /\ ~tick.returned) => status[tick.trade] # PENDING

C21_ResumeKeepsRemaining ==
    \A f, g \in DOMAIN futures :
        ( /\ f < g
          /\ futures[f].strategy.trade = futures[g].strategy.trade
          /\ futures[f].paused_remaining # None
          /\ status[futures[g].strategy.trade] = ACTIVE
          /\ futures[g].state = FRUNNING
          /\ futures[g].strategy.last_order_time = None )
            => futures[g].strategy.remaining_quantity = futures[f].paused_remaining

\* C22: a call of start_trade for a trade identifier that has an entry in
\* active_trades submits no loop and leaves active_trades as it is.
C22_StartTradeIdempotent ==
    [][(call'.op = "start_trade" /\ call'.had_entry)
          => (futures' = futures /\ active_trades' = active_trades)]_vars

\* start_trade was called for a trade whose loop is running
C22_Witness ==
    /\ call.op = "start_trade" /\ call.had_entry
    /\ active_trades[call.trade_id] # 0
    /\ futures[active_trades[call.trade_id]].state = FRUNNING
    /\ Len(futures) < MaxFutures

\* C23: a call of stop_trade for a trade identifier that has no entry in
\* active_trades cancels no loop and leaves active_trades as it is.
C23_StopTradeWithoutEntry ==
    [][(call'.op = "stop_trade" /\ ~call'.had_entry)
          => (futures' = futures /\ active_trades' = active_trades)]_vars

\* stop_trade was called for a trade without an entry while a loop of it was
\* still queued or running
C23_Witness ==
    /\ call.op = "stop_trade" /\ ~call.had_entry
    /\ \E f \in DOMAIN futures :
          /\ futures[f].strategy.trade = call.trade_id
          /\ futures[f].state \in {FPENDING, FRUNNING}

\* C24: the loops executing at one time are never more than the pool's
\* max_workers, and a queued loop starts only in a step that finds a worker
\* free.
C24_PoolBoundsRunningLoops ==
    [][/\ Cardinality(Running) <= PoolSize
       /\ \A f \in DOMAIN futures :
             (futures[f].state = FPENDING /\ futures'[f].state = FRUNNING)
                 => Cardinality(Running) < PoolSize]_vars

\* a loop waits in the queue while every worker of the pool is busy
C24_Witness ==
    /\ Cardinality(Running) = PoolSize
    /\ \E f \in DOMAIN futures : futures[f].state = FPENDING
    /\ Len(futures) > PoolSize

\* C25: round_price and round_quantity return the largest multiple of the tick
\* size that does not exceed the input, and the rounding of a value that is
\* itself the result of that rounding returns it unchanged.
C25_RoundsDownToTick ==
    calc.op # "none" =>
        /\ calc.result <= calc.x
        /\ calc.result % calc.tick_size = 0
        /\ calc.x - calc.result < calc.tick_size
        /\ calc.again => calc.result = calc.x

\* C26: the slice of a tick that computes one is remaining_quantity divided by
\* max(1, (end_time - now) / frequency), rounded to the quantity tick: it is
\* never more than remaining_quantity, and from end_time on it is the whole
\* remaining_quantity.
C26_SliceDividesByAtLeastOne ==
    [][(tick'.future # 0 /\ tick'.due /\ ~tick'.raised) =>
          LET s == futures[tick'.future].strategy
              t == tick'.trade
              left == end_time(t) - now
              slice == IF left <= trades[t].frequency
                       THEN Rat(s.remaining_quantity, 1)
                       ELSE Rat(s.remaining_quantity * trades[t].frequency, left)
          IN  /\ tick'.quantity = round_quantity(market, slice)
              /\ s.remaining_quantity >= 0 => tick'.quantity <= s.remaining_quantity
              /\ left <= 0 =>
                    tick'.quantity = round_quantity(market, Rat(s.remaining_quantity, 1))]_vars

\* C27: a request given retries = r makes at most r + 1 HTTP attempts; no
\* attempt follows a successful one, whose response is returned; and after
\* r + 1 attempts that all failed the request raises.
C27_AtMostRetriesPlusOneAttempts ==
    LET n == Len(request.responses)
    IN  /\ n <= request.given + 1
        /\ \A i \in 1..(n - 1) : request.responses[i] \in {"400", "500"}
        /\ request.outcome = "returned" <=> (n > 0 /\ request.responses[n] = "200")
        /\ (n = request.given + 1 /\ request.responses[n] # "200")
              => request.outcome = "raised"
        /\ request.outcome = "raised"
              => (n = request.given + 1 \/ request.responses[n] = "transport error")

\* get_latest_orders has raised after two attempts answered 500
C27_Witness ==
    /\ request.caller = "get_latest_orders"
    /\ request.outcome = "raised"
    /\ request.responses = <<"500", "500">>

\* C28: the catalogue is loaded once, and every thread that has constructed
\* MarketManager and looks the markets up sees all of them.
C28_CatalogueLoadedOnceAndWhole ==
    /\ manager.loads <= 1
    /\ \A th \in Threads :
          manager.threads[th].pc = "looked" => manager.threads[th].saw = Markets

RECURSIVE FilledBase(_, _)
\* the base_amount of the FILLED orders of trade t among the first n rows
FilledBase(t, n) ==
    IF n = 0 THEN 0
    ELSE FilledBase(t, n - 1)
         + (IF /\ orders[n].user_trade_id = t
               /\ orders[n].status = "filled"
               /\ orders[n].base_amount # None
            THEN orders[n].base_amount ELSE 0)

\* C29: the execution_progress reported for a trade is 100 x (the sum of
\* base_amount over its FILLED orders) / total_quantity, whatever the other
\* orders hold and whatever lifecycle commands the trade has been given.
C29_ProgressIsFilledShare ==
    stats.asked /\ ~stats.raised =>
        stats.execution_progress.num * trades[stats.trade_id].total_quantity
            = 100 * FilledBase(stats.trade_id, Len(orders)) * stats.execution_progress.den

\* a paused or cancelled trade whose filled order covers half of its
\* total_quantity, beside a partially filled order that holds a base_amount,
\* was asked for its statistics
C29_Witness ==
    /\ stats.asked /\ ~stats.raised
    /\ stats.status \in {PAUSED, STOPPED}
    /\ stats.execution_progress = Rat(200, 4)
    /\ \E i \in DOMAIN orders : orders[i].status = "filled"
    /\ \E i \in DOMAIN orders : orders[i].status # "filled" /\ orders[i].base_amount # None

\* loop f made a submission that was accepted, less than frequency ago
WithinFrequency(f) ==
    LET s == futures[f].strategy
    IN  /\ s.last_order_time # None
        /\ now - s.last_order_time < trades[s.trade].frequency

\* what is required of a tick of loop f: it reports continue, calls neither the
\* gateway nor the store, and the loop goes on
IdleTick(f) ==
    /\ tick'.returned /\ ~tick'.raised
    /\ ~tick'.cancel_market_orders /\ ~tick'.place_order
    /\ ~tick'.add_order /\ ~tick'.update_user_trade
    /\ orders' = orders
    /\ status' = status
    /\ futures'[f].strategy = futures[f].strategy
    /\ futures'[f].state = FRUNNING

\* two accepted submissions of loop f are at least frequency apart
SubmissionsApart(f) ==
    (tick'.future = f /\ tick'.accepted /\ futures[f].strategy.last_order_time # None)
        => now - futures[f].strategy.last_order_time
               >= trades[futures[f].strategy.trade].frequency

CallIndex(c) ==
    IF \E i \in DOMAIN tick.calls : tick.calls[i] = c
    THEN CHOOSE i \in DOMAIN tick.calls : tick.calls[i] = c
    ELSE 0

\* C31: a tick that hands an order to place_order has stored it with add_order
\* before, and every order the exchange has been given has a row in the store.
C31_StoredBeforeSubmitted ==
    /\ (tick.future # 0 /\ CallIndex("place_order") # 0)
           => (CallIndex("add_order") # 0 /\ CallIndex("add_order") < CallIndex("place_order"))
    /\ (tick.future # 0 /\ tick.place_order)
           => /\ orders # <<>>
              /\ orders[Len(orders)].user_trade_id = tick.trade
              /\ orders[Len(orders)].quantity = tick.quantity

\* a tick has just had an order accepted by the gateway
C31_Witness ==
    /\ tick.future # 0 /\ tick.place_order /\ tick.accepted
    /\ CallIndex("place_order") = Len(tick.calls)
    /\ orders[Len(orders)].exch = "open"

\* C32: a loop takes a tick only where run() calls process_interval; after a
\* tick that did not return False it sleeps and then ticks again, after one that
\* returned False (or raised) it has returned without sleeping, and it takes no
\* tick after that.
C32_TicksInSequence ==
    [][\A f \in DOMAIN futures :
         /\ tick'.future = f
                => /\ futures[f].state = FRUNNING /\ futures[f].pc = "tick"
                   /\ IF tick'.returned
                      THEN futures'[f].state = FRUNNING /\ futures'[f].pc = "sleep"
                      ELSE futures'[f].state = FFINISHED /\ futures'[f].pc = "return"
         /\ (futures[f].pc = "sleep" /\ futures'[f].pc # "sleep")
                => futures'[f].pc = "tick" /\ tick'.future # f
         /\ futures[f].pc = "return"
                => futures'[f].pc = "return" /\ tick'.future # f]_vars

\* a loop that had an order accepted, slept and ticked again has returned on
\* a tick that reported stop
C32_Witness ==
    /\ tick.future # 0 /\ ~tick.returned /\ ~tick.raised
    /\ futures[tick.future].pc = "return"
    /\ futures[tick.future].state = FFINISHED
    /\ \E i \in DOMAIN orders : orders[i].user_trade_id = tick.trade /\ orders[i].exch # "none"

\* how many times the tick just taken made call c
CallCount(c) == Cardinality({ i \in DOMAIN tick.calls : tick.calls[i] = c })

\* C33: a tick that calls stop() makes exactly one cancel_market_orders call,
\* then persists the trade exactly once, and the trade's status is COMPLETED.
C33_StopCancelsThenCompletes ==
    (tick.future # 0 /\ tick.update_user_trade)
        => /\ CallCount("cancel_market_orders") = 1
           /\ CallCount("update_user_trade") = 1
           /\ CallIndex("cancel_market_orders") < CallIndex("update_user_trade")
           /\ status[tick.trade] = COMPLETED
           /\ \A i \in DOMAIN orders : ~is_live(orders[i])

\* a loop whose last order was still open has just stopped
C33_Witness ==
    /\ tick.future # 0 /\ tick.update_user_trade
    /\ status[tick.trade] = COMPLETED
    /\ orders # <<>>
    /\ orders[Len(orders)].exch = "cancelled"

\* the duration of trade t is over and all of its validated quantity was
\* submitted
Distributed(t) ==
    /\ now >= end_time(t)
    /\ Submitted(t) = TwapStrategy(t).remaining_quantity

\* C34: a trade that stays ACTIVE, with a running loop and a gateway that
\* serves every call, eventually has status COMPLETED, and has it only after
\* its duration is over and its whole quantity was submitted.
C34_ActiveTradeCompletesAfterDuration ==
    /\ <>(status[1] = COMPLETED)
    /\ [](status[1] = COMPLETED => Distributed(1))

\* C35: cleanup_completed_trades deletes the entries whose loop has finished,
\* and only those: the entry of a loop that is running or queued stays, and no
\* loop is touched.
C35_CleanupRemovesFinishedOnly ==
    [][call'.op = "cleanup_completed_trades"
          => /\ futures' = futures
             /\ \A t \in Trades :
                   active_trades'[t] =
                       IF /\ active_trades[t] # 0
                          /\ futures[active_trades[t]].state = FFINISHED
                       THEN 0 ELSE active_trades[t]]_vars

\* a sweep has just deleted the entry of a finished loop
C35_Witness ==
    /\ call.op = "cleanup_completed_trades" /\ call.had_entry
    /\ \E t \in Trades : active_trades[t] = 0
    /\ futures # <<>>
    /\ \A f \in DOMAIN futures : futures[f].state = FFINISHED

\* C36: writing a reported order to the store changes only the rows that have
\* its client order id, leaves them with the reported state, and writing the
\* same report once more changes nothing.
C36_MergeIdempotent ==
    [][\A order \in CubeOrders :
         orders' = update_order(orders, order)
            => /\ update_order(orders', order) = orders'
               /\ \A i \in DOMAIN orders :
                     IF orders[i].client_order_id = order.client_order_id
                     THEN orders'[i].status = order.status
                     ELSE orders'[i] = orders[i]]_vars

\* a row took a reported fill while a row with another client order id, or
\* with none, stayed as a tick stored it
C36_Witness ==
    /\ Len(orders) = 2
    /\ orders[1].client_order_id = 1 /\ orders[1].status = "filled"
    /\ orders[1].base_amount = 1
    /\ orders[2].client_order_id # 1 /\ orders[2].status = "pending"

\* C37: the lock is held only by a thread inside the map operation of a
\* method, which can finish and release it whatever the loops are doing; a
\* thread that waits for the lock never waits for good; a tick neither takes
\* the lock nor waits for it.
C37_LockHeldForMapOperationOnly ==
    [][/\ lock.holder # "none"
            => /\ lock.pc[lock.holder] = "critical"
               /\ ENABLED Critical(lock.holder)
       /\ \A c \in Schedulers :
             lock.pc[c] = "acquire"
                 => \/ ENABLED Acquire(c)
                    \/ lock.holder # "none" /\ ENABLED Critical(lock.holder)
       /\ \A c \in Schedulers :
             (lock.holder = c /\ lock'.pc[c] = "idle") => lock'.holder = "none"
       /\ tick'.future # 0 => lock' = lock]_vars

\* a loop has just taken a tick while one thread held the lock and the other
\* waited for it
C37_Witness ==
    /\ tick.future # 0 /\ tick.place_order
    /\ lock.holder = "main" /\ lock.op["main"] = "cleanup_completed_trades"
    /\ lock.pc["api"] = "acquire"

\* C38: while a loop of a trade is executing, active_trades has an entry for
\* the trade and is_trade_active answers true for it.
C38_RunningLoopHasEntry ==
    \A f \in Running :
        /\ active_trades[futures[f].strategy.trade] # 0
        /\ is_trade_active(futures[f].strategy.trade)

\* C39: stop_trade for a trade whose loop is still queued cancels that loop
\* and deletes the entry; a cancelled loop is never started and takes no tick.
C39_QueuedLoopCancelled ==
    [][/\ \A t \in Trades :
             ( /\ call'.op = "stop_trade" /\ call'.trade_id = t
               /\ active_trades[t] # 0
               /\ futures[active_trades[t]].state = FPENDING )
                 => /\ futures'[active_trades[t]].state = FCANCELLED
                    /\ active_trades'[t] = 0
       /\ \A f \in DOMAIN futures :
             futures[f].state = FCANCELLED
                 => (futures'[f] = futures[f] /\ tick'.future # f)]_vars

\* stop_trade has just cancelled a queued loop
C39_Witness ==
    /\ call.op = "stop_trade" /\ call.had_entry
    /\ active_trades[call.trade_id] = 0
    /\ \E f \in DOMAIN futures :
          /\ futures[f].state = FCANCELLED
          /\ futures[f].strategy.trade = call.trade_id


----------------------------------------------------------------------------
\* C40: when a live row of the store has no entry in the response main mapped,
\* the pass fails at the first such row: the rows before it are the only ones
\* it asked an update for, that row and the live rows after it keep their state
\* (but for a row that shares its client order id with an earlier one, which
\* the earlier update wrote), and neither the cleanup of the finished loops nor
\* the admission of trades takes place in the pass.
C40_MissingOrderFailsThePass ==
    [][ pass'.ran =>
          LET live == get_live_orders
              missing == { i \in live : orders[i].client_order_id \notin main'.keys }
          IN  missing # {} =>
                LET i == CHOOSE x \in missing : \A y \in missing : x <= y
                IN  /\ main'.raised
                    /\ main'.at = i
                    /\ pass'.updated = { j \in live : j < i }
                    /\ \A j \in live :
                         ( /\ j >= i
                           /\ \A k \in live :
                                k < i => orders[k].client_order_id # orders[j].client_order_id )
                         => orders'[j] = orders[j]
                    /\ pass'.admitted = {}
                    /\ futures' = futures
                    /\ active_trades' = active_trades ]_vars

\* a pass has failed at the first row, for want of its entry, with a second
\* live row whose entry the response had, while the finished loop of a trade
\* that main would admit again still has its entry
C40_Witness ==
    /\ pass.ran
    /\ main.raised
    /\ main.at = 1
    /\ Len(orders) = 2
    /\ orders[2].status = "partially_filled"
    /\ orders[2].client_order_id \in main.keys
    /\ \E t \in Trades :
         /\ status[t] = PENDING
         /\ active_trades[t] # 0
         /\ done(active_trades[t])
         /\ Len(futures) < MaxFutures

====
